---- MODULE Spec2Model ----
(***************************************************************************)
(* State-machine model of the WorkoutBuddy progress engine: the            *)
(* AudioTracker singleton, the workout session screen that drives it, the  *)
(* WorkoutProvider and ProgressProvider reducers and the localStorage      *)
(* keys they share.                                                        *)
(*                                                                         *)
(* Time is counted in hours for calendar arithmetic (Date parsing, day     *)
(* differences) and in milliseconds for audio playback.  Day 0 is the      *)
(* local calendar day of "now"; instants are hours relative to the local   *)
(* midnight that starts day 0.  Date.now() stamps (timestamp, lastUpdated, *)
(* sessionStartTime) are written but never read by the modelled code and   *)
(* are left out of the records.                                            *)
(***************************************************************************)
EXTENDS Integers, Sequences, FiniteSets, TLC

VARIABLES
  env,                  \* calendar environment of the browser (see EnvType)
  audioPlaybackTime,    \* AudioTracker.audioPlaybackTime (ms)
  isPlaying,            \* AudioTracker.isPlaying
  trackingInterval,     \* AudioTracker.trackingInterval is non-null
  activeTimers,         \* number of live setInterval timers created by the tracker
  onProgressUpdate,     \* AudioTracker.onProgressUpdate: "null" or the registered callback
  lsDailyProgress,      \* localStorage['workoutbuddy_daily_progress']
  lsUserStats,          \* localStorage['workoutbuddy_user_stats']
  lsUserProfile,        \* localStorage['workoutbuddy_user_profile']
  lsWorkoutHistory,     \* localStorage['workoutbuddy_workout_history']
  lsDemoMode,           \* localStorage['workoutbuddy_demo_mode'] is 'true'
  storageFull,          \* localStorage.setItem throws (quota exceeded)
  backup,               \* the last text exportData returned, kept by the user
  ctxDailyProgress,     \* ProgressProvider state.dailyProgress
  ctxUserStats,         \* ProgressProvider state.userStats
  ctxIsLoading,         \* ProgressProvider state.isLoading
  clsDailyProgress,     \* state.dailyProgress captured by the callbacks of the committed render
  dpChanged,            \* state.dailyProgress got a new identity since the committed render
  statsInFlight,        \* newStats of updateDailyProgress calls suspended at their await
  audioProgress,        \* WorkoutProvider state.audioProgress
  currentScreen,        \* App currentScreen
  scrIsPlaying,         \* WorkoutSessionScreen isPlaying
  currentSegmentIndex,  \* WorkoutSessionScreen currentSegmentIndex
  isGeneratingAudio,    \* WorkoutSessionScreen isGeneratingAudio
  pendingEnds,          \* handleWorkoutEnd calls suspended at the feedback request
  audioEnded,           \* history: onAudioEnd was called since the last startSession
  resultEvaluated,      \* history: checkWorkoutCompletion was called since the last startSession
  playedClock,          \* history: ms the screen spent playing since the last startSession (timed model only)
  timerDue,             \* ms until the live interval timer fires next (timed model only)
  beforeDemo,           \* history: the stored daily progress and user stats when demo mode was last enabled
  renderPending,        \* a dispatch changed the provider's state and React has not rendered it yet (refresh model only)
  refreshRuns,          \* history: refreshStats calls since state.dailyProgress last changed (refresh model only)
  ret                   \* the operation that ran last and what it returned

trackerVars == <<audioPlaybackTime, isPlaying, trackingInterval, activeTimers, onProgressUpdate>>
otherStorageVars == <<lsUserProfile, lsWorkoutHistory, lsDemoMode, storageFull, backup>>
storageVars == <<lsDailyProgress, lsUserStats, otherStorageVars>>
providerVars == <<ctxDailyProgress, ctxUserStats, ctxIsLoading, clsDailyProgress, dpChanged, statsInFlight>>
screenVars == <<currentScreen, scrIsPlaying, currentSegmentIndex, isGeneratingAudio, pendingEnds>>
clockVars == <<playedClock, timerDue>>
effectVars == <<renderPending, refreshRuns>>
historyVars == <<audioEnded, resultEvaluated, clockVars, beforeDemo, effectVars>>
vars == <<env, trackerVars, storageVars, providerVars, audioProgress, screenVars, historyVars, ret>>

(***************************************************************************)
(* Bounds of the model.                                                    *)
(***************************************************************************)
\* Oldest stored day drawn for the streak inputs: days -MaxStreakBack..0.
MaxStreakBack == 4
\* Oldest stored day drawn for the weekly/total inputs: days -MaxWeekBack..0.
MaxWeekBack == 6
\* Largest REACT_APP_WEEKLY_GOAL_DAYS drawn.
MaxGoal == 7

(***************************************************************************)
(* Configuration (constants/config.ts).                                    *)
(***************************************************************************)
WORKOUT_TARGET_MINUTES == 45
\* COMPLETION_THRESHOLD = 0.8, kept as the fraction 8/10.
COMPLETION_THRESHOLD_NUM == 8
COMPLETION_THRESHOLD_DEN == 10
\* parseInt(process.env.REACT_APP_WEEKLY_GOAL_DAYS || '5'): a build-time input.
WEEKLY_GOAL_DAYS == env.weeklyGoal
DefaultWeeklyGoal == 5

(***************************************************************************)
(* Calendar: what Date does with the keys of the progress store.           *)
(*   env.dow       day of week of day 0 (0 = Sunday)                        *)
(*   env.tod       whole hours elapsed since local midnight of day 0        *)
(*   env.dstDay, env.dstShift                                               *)
(*                 the local day whose length is 24 + dstShift hours        *)
(*                 (-1 spring forward, +1 fall back, 0 no transition)       *)
(*   env.tz        UTC offset in force at local midnight of day 0           *)
(***************************************************************************)
\* Length in hours of local calendar day d.
DayLength(d) == IF env.dstShift # 0 /\ d = env.dstDay THEN 24 + env.dstShift ELSE 24

\* Instant of local midnight of day d (what new Date("Fri Nov 06 2026") yields):
\* the lengths of the days between day d and day 0, summed.
LocalMidnight(d) ==
  IF d <= env.dstDay /\ env.dstDay < 0 THEN 24 * d - (DayLength(env.dstDay) - 24)
  ELSE IF 0 <= env.dstDay /\ env.dstDay < d THEN 24 * d + (DayLength(env.dstDay) - 24)
  ELSE 24 * d

\* new Date().getTime()
Now == env.tod

\* new Date().toDateString(): the key of the local calendar day of now.
ToDateStringNow == [fmt |-> "toDateString", day |-> 0]

\* format(subDays(today, i), 'yyyy-MM-dd') of date-fns: local calendar day, ISO text.
FormatIso(i) == [fmt |-> "yyyy-MM-dd", day |-> 0 - i]

\* new Date(dateString).getTime(): a toDateString text parses to local midnight,
\* a date-only ISO text parses to UTC midnight of that day.
ParseDate(key) ==
  IF key.fmt = "toDateString" THEN LocalMidnight(key.day)
  ELSE 24 * key.day + env.tz

\* Math.round(p / q) for p >= 0, q > 0: halves round up.
MathRound(p, q) == (2 * p + q) \div (2 * q)

\* Math.max(0, n)
MaxZero(n) == IF n > 0 THEN n ELSE 0

(***************************************************************************)
(* AudioTracker: streak, weekly statistics and totals.                     *)
(***************************************************************************)
\* Math.floor((today.getTime() - progressDate.getTime()) / (1000*60*60*24))
daysDifference(dateString) == (Now - ParseDate(dateString)) \div 24

\* Object.keys(progressData).filter(completed).sort(most recent first)
RECURSIVE SortDesc(_)
SortDesc(keys) ==
  IF keys = {} THEN <<>>
  ELSE LET top == CHOOSE k \in keys : \A j \in keys : ParseDate(j) <= ParseDate(k)
       IN <<top>> \o SortDesc(keys \ {top})

sortedDates(progressData) ==
  SortDesc({k \in DOMAIN progressData : progressData[k].completed})

\* The for loop of calculateCurrentStreak over the dates from position i on.
RECURSIVE StreakLoop(_, _, _)
StreakLoop(dates, i, streak) ==
  IF i > Len(dates) THEN streak
  ELSE IF daysDifference(dates[i]) = streak THEN StreakLoop(dates, i + 1, streak + 1)
  ELSE IF daysDifference(dates[i]) > streak THEN streak
  ELSE StreakLoop(dates, i + 1, streak)

calculateCurrentStreak(progressData) == StreakLoop(sortedDates(progressData), 1, 0)

\* getCurrentWeekDates: the seven toDateString keys from Sunday on.
getCurrentWeekDates ==
  [i \in 1..7 |-> [fmt |-> "toDateString", day |-> (0 - env.dow) + (i - 1)]]

\* weeklyPercentage: Math.round((completedThisWeek / weeklyGoal) * 100)
WeeklyPercentageCapped(completedThisWeek, weeklyGoal) ==
  IF MathRound(completedThisWeek * 100, weeklyGoal) > 100 THEN 100
  ELSE MathRound(completedThisWeek * 100, weeklyGoal)

WeeklyPercentage(completedThisWeek, weeklyGoal) ==
  MathRound(completedThisWeek * 100, weeklyGoal)

calculateWeeklyStats(progressData) ==
  LET currentWeekDates == getCurrentWeekDates
      completedThisWeek == Cardinality({i \in 1..7 :
          /\ currentWeekDates[i] \in DOMAIN progressData
          /\ progressData[currentWeekDates[i]].completed})
      weeklyGoal == WEEKLY_GOAL_DAYS
  IN [daysCompleted |-> completedThisWeek,
      weeklyGoal |-> weeklyGoal,
      daysRemaining |-> MaxZero(weeklyGoal - completedThisWeek),
      weeklyPercentage |-> WeeklyPercentage(completedThisWeek, weeklyGoal),
      currentWeekDates |-> currentWeekDates]

\* Object.values(progressData).filter(day => day.completed).length
TotalWorkouts(progressData) ==
  Cardinality({k \in DOMAIN progressData : progressData[k].completed})

\* Object.values(progressData).reduce((sum, day) => sum + day.audioMinutes, 0)
RECURSIVE ReduceMinutes(_, _)
ReduceMinutes(progressData, keys) ==
  IF keys = {} THEN 0
  ELSE LET k == CHOOSE x \in keys : TRUE
       IN progressData[k].audioMinutes + ReduceMinutes(progressData, keys \ {k})

TotalMinutesCompletedOnly(progressData) ==
  ReduceMinutes(progressData, {k \in DOMAIN progressData : progressData[k].completed})

TotalMinutes(progressData) == ReduceMinutes(progressData, DOMAIN progressData)

\* The statsData record built by updateStreakAndStats and by refreshStats.
StatsOf(progressData) ==
  [currentStreak |-> calculateCurrentStreak(progressData),
   weeklyStats |-> calculateWeeklyStats(progressData),
   totalWorkouts |-> TotalWorkouts(progressData),
   totalMinutes |-> TotalMinutes(progressData)]

\* defaultStats of ProgressContext.
defaultStats ==
  [currentStreak |-> 0,
   weeklyStats |-> [daysCompleted |-> 0, weeklyGoal |-> DefaultWeeklyGoal,
                    daysRemaining |-> DefaultWeeklyGoal, weeklyPercentage |-> 0,
                    currentWeekDates |-> <<>>],
   totalWorkouts |-> 0,
   totalMinutes |-> 0]

(***************************************************************************)
(* Records and small helpers.                                              *)
(***************************************************************************)
\* A localStorage item: absent (getItem returns null), a JSON text that parses
\* to `data`, or a text JSON.parse throws on.
Absent == [kind |-> "absent", data |-> <<>>]
Json(v) == [kind |-> "json", data |-> v]
Malformed == [kind |-> "malformed", data |-> <<>>]

\* No export has been made yet.
NoBackup == [kind |-> "none"]

\* localStorage.setItem behind a try/catch that logs: the item keeps its old
\* text when the write fails.
SetItem(item, text) == IF storageFull THEN item ELSE text

\* { [date]: outcome, ...store }: an earlier outcome for the date would win.
UpsertKeepFirst(store, date, outcome) ==
  [k \in (DOMAIN store) \cup {date} |-> IF k \in DOMAIN store THEN store[k] ELSE outcome]

\* { ...store, [date]: outcome }
Upsert(store, date, outcome) ==
  [k \in (DOMAIN store) \cup {date} |-> IF k = date THEN outcome ELSE store[k]]

\* What an operation hands back: its name, whether the progress callback ran,
\* for an evaluation the playback time it read and the sessionResult, the
\* arguments it was called with, the value it returned, whether that value
\* reports a failure and whether an exception or rejection reached the caller.
Returned(op, notified) ==
  [op |-> op, notified |-> notified, evaluated |-> FALSE,
   ms |-> 0, completed |-> FALSE, minutes |-> 0, pct |-> 0,
   arg |-> <<>>, value |-> <<>>, failed |-> FALSE, threw |-> FALSE]

(***************************************************************************)
(* AudioTracker: completion evaluation (checkWorkoutCompletion).           *)
(***************************************************************************)
targetTime == WORKOUT_TARGET_MINUTES * 60 * 1000

\* this.audioPlaybackTime >= targetTime * COMPLETION_THRESHOLD
workoutCompletedStrict(ms) ==
  ms * COMPLETION_THRESHOLD_DEN > targetTime * COMPLETION_THRESHOLD_NUM

workoutCompleted(ms) ==
  ms * COMPLETION_THRESHOLD_DEN >= targetTime * COMPLETION_THRESHOLD_NUM

\* Rounding to the nearest minute with halves rounded down.
playedMinutesHalfDown(ms) == (2 * ms + 60000 - 1) \div (2 * 60000)

\* Math.round(this.audioPlaybackTime / 60000)
playedMinutes(ms) == MathRound(ms, 60000)

\* The percentage capped at 100.
completionPercentageCapped(ms) ==
  IF ms >= targetTime THEN 100 ELSE MathRound(ms * 100, targetTime)

\* Math.round((this.audioPlaybackTime / targetTime) * 100)
completionPercentage(ms) == MathRound(ms * 100, targetTime)

\* The sessionResult object of checkWorkoutCompletion.
sessionResult(ms) ==
  [completed |-> workoutCompleted(ms),
   audioPlaybackMinutes |-> playedMinutes(ms),
   targetMinutes |-> WORKOUT_TARGET_MINUTES,
   completionPercentage |-> completionPercentage(ms),
   date |-> ToDateStringNow]

\* The day entry written for a sessionResult (markDailyGoalComplete,
\* handleWorkoutEnd): completed is the literal true.
DayEntry(result) ==
  [completed |-> TRUE,
   audioMinutes |-> result.audioPlaybackMinutes,
   completionPercentage |-> result.completionPercentage]

\* markDailyGoalComplete: the storage it leaves, as <<daily progress, user stats>>.
\* A stored text that does not parse makes JSON.parse throw before any write,
\* and so does a setItem that fails.
markDailyGoalComplete(result, daily, stats) ==
  IF daily.kind = "malformed" \/ storageFull THEN <<daily, stats>>
  ELSE LET progressData == Upsert(daily.data, ToDateStringNow, DayEntry(result))
       IN <<Json(progressData), Json(StatsOf(progressData))>>

\* A checkWorkoutCompletion that would mark the day whatever the verdict.
checkWorkoutCompletionStorageAlways(ms, daily, stats) ==
  markDailyGoalComplete(sessionResult(ms), daily, stats)

\* checkWorkoutCompletion: the storage it leaves (it marks the day only when
\* the threshold is met).
checkWorkoutCompletionStorage(ms, daily, stats) ==
  IF workoutCompleted(ms) THEN markDailyGoalComplete(sessionResult(ms), daily, stats)
  ELSE <<daily, stats>>

\* What checkWorkoutCompletion returns, with the playback time it read.
Evaluated(op, ms) ==
  [op |-> op, notified |-> FALSE, evaluated |-> TRUE, ms |-> ms,
   completed |-> sessionResult(ms).completed,
   minutes |-> sessionResult(ms).audioPlaybackMinutes,
   pct |-> sessionResult(ms).completionPercentage,
   arg |-> <<>>, value |-> <<>>, failed |-> FALSE, threw |-> FALSE]

(***************************************************************************)
(* Bounds of the session model.                                            *)
(***************************************************************************)
\* Most timer ticks counted in one session (the threshold is tick 2160).
MaxTicks == 2162
\* Segments of the workout plan.
NumSegments == 2
\* Most handleWorkoutEnd calls waiting for their feedback request at once.
MaxPendingEnds == 1

(***************************************************************************)
(* ProgressProvider (ProgressContext).                                      *)
(***************************************************************************)
\* No render, effect or resumed await of the provider is outstanding: the
\* event loop has drained its microtasks and React has committed.
Quiescent == ~dpChanged /\ statsInFlight = <<>>

\* updateDailyProgress up to its await: dispatch UPDATE_DAILY_PROGRESS, save
\* { ...state.dailyProgress, [date]: progress } built from the state the
\* callback closed over, and let AudioTracker.updateStreakAndStats store newStats.
\* When setItem fails, saveDailyProgress logs it, updateStreakAndStats rejects
\* and the catch of updateDailyProgress logs that: nothing resumes.
updateDailyProgress(date, progress) ==
  LET updatedProgress == Upsert(clsDailyProgress, date, progress)
      newStats == StatsOf(updatedProgress)
  IN /\ ctxDailyProgress' = Upsert(ctxDailyProgress, date, progress)
     /\ dpChanged' = TRUE
     /\ lsDailyProgress' = SetItem(lsDailyProgress, Json(updatedProgress))
     /\ lsUserStats' = SetItem(lsUserStats, Json(newStats))
     /\ statsInFlight' = IF storageFull THEN statsInFlight
                         ELSE Append(statsInFlight, newStats)
     /\ UNCHANGED <<ctxUserStats, ctxIsLoading, clsDailyProgress, otherStorageVars>>

\* updateDailyProgress after its await: dispatch UPDATE_STATS, saveUserStats.
StatsContinuation ==
  /\ statsInFlight # <<>>
  /\ ctxUserStats' = Head(statsInFlight)
  /\ lsUserStats' = SetItem(lsUserStats, Json(Head(statsInFlight)))
  /\ statsInFlight' = Tail(statsInFlight)
  /\ ret' = Returned("updateDailyProgress", FALSE)
  /\ UNCHANGED <<env, trackerVars, lsDailyProgress, otherStorageVars, ctxDailyProgress,
                 ctxIsLoading, clsDailyProgress, dpChanged, audioProgress, screenVars,
                 historyVars>>

\* The auto-refresh effect: refreshStats runs only for a non-empty dailyProgress.
AutoRefreshRuns(dailyProgress) == DOMAIN dailyProgress # {}

\* refreshStats: the statistics it dispatches with UPDATE_STATS and saves.
refreshStats(dailyProgress) == StatsOf(dailyProgress)

\* The provider re-renders after state.dailyProgress changed: the callbacks
\* close over the new state and the auto-refresh effect runs.  Passive effects
\* run after the microtasks that resume the awaits of updateDailyProgress.
RenderAndEffects ==
  /\ dpChanged
  /\ statsInFlight = <<>>
  /\ dpChanged' = FALSE
  /\ clsDailyProgress' = ctxDailyProgress
  /\ IF AutoRefreshRuns(ctxDailyProgress)
     THEN /\ LET updatedStats == refreshStats(ctxDailyProgress)
             IN /\ ctxUserStats' = updatedStats
                /\ lsUserStats' = SetItem(lsUserStats, Json(updatedStats))
          /\ ctxIsLoading' = FALSE
          /\ ret' = Returned("refreshStats", FALSE)
     ELSE /\ UNCHANGED <<ctxUserStats, lsUserStats, ctxIsLoading>>
          /\ ret' = Returned("render", FALSE)
  /\ UNCHANGED <<env, trackerVars, lsDailyProgress, otherStorageVars, ctxDailyProgress,
                 statsInFlight, audioProgress, screenVars, historyVars>>

(***************************************************************************)
(* AudioTracker timer and the workout session screen.                      *)
(***************************************************************************)
\* The interval callback's test: if (this.isPlaying)
IntervalGuardAlways == TRUE

IntervalGuard == isPlaying

\* A notification that would report the time before the tick.
notifyProgressUpdateStale(ms) == completionPercentage(ms - 1000)

\* notifyProgressUpdate with ms accumulated: the completionPercentage of the
\* progress object, which the registered callback hands to updateProgress.
notifyProgressUpdate(ms) == completionPercentage(ms)

\* The interval callback runs once, with at most `limit` ticks counted.
IntervalCallback(limit) ==
  /\ activeTimers > 0
  /\ Quiescent
  /\ IF IntervalGuard
     THEN /\ audioPlaybackTime < limit * 1000
          /\ audioPlaybackTime' = audioPlaybackTime + 1000
          \* notifyProgressUpdate -> updateProgress -> UPDATE_PROGRESS
          /\ audioProgress' = IF onProgressUpdate # "null"
                              THEN notifyProgressUpdate(audioPlaybackTime + 1000)
                              ELSE audioProgress
          /\ ret' = Returned("tick", onProgressUpdate # "null")
     ELSE /\ UNCHANGED <<audioPlaybackTime, audioProgress>>
          /\ ret' = Returned("tick", FALSE)
  /\ UNCHANGED <<env, isPlaying, trackingInterval, activeTimers, onProgressUpdate,
                 storageVars, providerVars, screenVars>>

\* One firing of a live interval timer, at a time the model leaves open.
TickUpTo(limit) == IntervalCallback(limit) /\ UNCHANGED historyVars

Tick == TickUpTo(MaxTicks)

\* stopTracking: clear the interval the handle names, isPlaying = false.
stopTracking ==
  /\ activeTimers' = IF trackingInterval THEN activeTimers - 1 ELSE activeTimers
  /\ trackingInterval' = FALSE
  /\ isPlaying' = FALSE

\* The session screen unmounts: its useState cells are gone (a later mount
\* starts from their initial values).
SessionUnmount ==
  /\ scrIsPlaying' = FALSE
  /\ currentSegmentIndex' = 0
  /\ isGeneratingAudio' = FALSE

\* App navigation between the screens that hold no session.
Navigate(screen) ==
  /\ currentScreen \in {"home", "workout", "complete"}
  /\ screen \in {"home", "workout"}
  /\ screen # currentScreen
  /\ Quiescent
  /\ currentScreen' = screen
  /\ ret' = Returned("handleNavigate", FALSE)
  /\ UNCHANGED <<env, trackerVars, storageVars, providerVars, audioProgress,
                 scrIsPlaying, currentSegmentIndex, isGeneratingAudio, pendingEnds,
                 historyVars>>

\* A startSession that would keep the accumulated time of the tracker.
startSessionKeepsTime ==
  /\ audioPlaybackTime' = audioPlaybackTime
  /\ isPlaying' = FALSE

\* AudioTracker.startSession: audioPlaybackTime = 0, isPlaying = false.
startSession ==
  /\ audioPlaybackTime' = 0
  /\ isPlaying' = FALSE

\* The workout plan is ready: the session screen mounts and its tracking
\* effect runs startSession and setProgressCallback.
SessionMount ==
  /\ currentScreen = "workout"
  /\ Quiescent
  /\ currentScreen' = "session"
  /\ scrIsPlaying' = FALSE
  /\ currentSegmentIndex' = 0
  /\ isGeneratingAudio' = TRUE
  /\ startSession
  /\ onProgressUpdate' = "updateProgress"
  /\ audioEnded' = FALSE
  /\ resultEvaluated' = FALSE
  /\ playedClock' = 0
  /\ UNCHANGED <<timerDue, beforeDemo, effectVars>>
  /\ ret' = Returned("startSession", FALSE)
  /\ UNCHANGED <<env, trackingInterval, activeTimers, storageVars, providerVars,
                 audioProgress, pendingEnds>>

\* generateAudioSequence settles (generated or mock segments).
AudioSequenceReady ==
  /\ currentScreen = "session"
  /\ isGeneratingAudio
  /\ Quiescent
  /\ isGeneratingAudio' = FALSE
  /\ ret' = Returned("generateAudioSequence", FALSE)
  /\ UNCHANGED <<env, trackerVars, storageVars, providerVars, audioProgress,
                 currentScreen, scrIsPlaying, currentSegmentIndex, pendingEnds,
                 historyVars>>

\* A startPlaybackTracking that would not clear the interval it replaces.
startPlaybackTrackingNoClear ==
  /\ activeTimers' = activeTimers + 1
  /\ trackingInterval' = TRUE

\* AudioTracker.startPlaybackTracking: clear the interval the handle names,
\* then create one.
startPlaybackTracking ==
  /\ activeTimers' = (IF trackingInterval THEN activeTimers - 1 ELSE activeTimers) + 1
  /\ trackingInterval' = TRUE

\* handlePlayPause
handlePlayPause ==
  /\ currentScreen = "session"
  /\ ~isGeneratingAudio
  /\ Quiescent
  /\ IF scrIsPlaying
     THEN \* pause: onAudioPause
          /\ isPlaying' = FALSE
          /\ scrIsPlaying' = FALSE
          /\ UNCHANGED <<trackingInterval, activeTimers>>
     ELSE \* play: onAudioPlay, startPlaybackTracking
          /\ isPlaying' = TRUE
          /\ startPlaybackTracking
          /\ scrIsPlaying' = TRUE
  /\ ret' = Returned("handlePlayPause", FALSE)
  /\ UNCHANGED <<env, audioPlaybackTime, onProgressUpdate, storageVars, providerVars,
                 audioProgress, currentScreen, currentSegmentIndex, isGeneratingAudio,
                 pendingEnds>>

\* The play/pause button, pressed at a time the model leaves open.
HandlePlayPause == handlePlayPause /\ UNCHANGED historyVars

\* handleNextSegment below the last segment: advance, setIsPlaying(false),
\* load the next audio source.  The tracker is not told.
NextSegment(op) ==
  /\ currentSegmentIndex' = currentSegmentIndex + 1
  /\ scrIsPlaying' = FALSE
  /\ ret' = Returned(op, FALSE)
  /\ UNCHANGED <<env, trackerVars, storageVars, providerVars, audioProgress,
                 currentScreen, isGeneratingAudio, pendingEnds, historyVars>>

\* handleWorkoutEnd up to its request for feedback.
WorkoutEnd(op) ==
  LET ms == audioPlaybackTime
      result == sessionResult(ms)
      \* onAudioEnd's checkWorkoutCompletion, then the handler's own
      first == checkWorkoutCompletionStorage(ms, lsDailyProgress, lsUserStats)
      second == checkWorkoutCompletionStorage(ms, first[1], first[2])
  IN /\ pendingEnds < MaxPendingEnds
     /\ scrIsPlaying' = FALSE
     /\ isPlaying' = FALSE
     /\ audioEnded' = TRUE
     /\ resultEvaluated' = TRUE
     /\ UNCHANGED <<clockVars, beforeDemo, effectVars>>
     /\ IF result.completed
        THEN updateDailyProgress(result.date, DayEntry(result))
        ELSE /\ lsDailyProgress' = second[1]
             /\ lsUserStats' = second[2]
             /\ UNCHANGED <<providerVars, otherStorageVars>>
     /\ pendingEnds' = pendingEnds + 1
     /\ ret' = Evaluated(op, ms)
     /\ UNCHANGED <<env, audioPlaybackTime, trackingInterval, activeTimers,
                    onProgressUpdate, audioProgress, currentScreen,
                    currentSegmentIndex, isGeneratingAudio>>

\* The skip button (disabled on the last segment).
HandleNextSegment ==
  /\ currentScreen = "session"
  /\ Quiescent
  /\ currentSegmentIndex < NumSegments - 1
  /\ NextSegment("handleNextSegment")

\* The End Workout button.
HandleWorkoutEnd ==
  /\ currentScreen = "session"
  /\ Quiescent
  /\ WorkoutEnd("handleWorkoutEnd")

\* The audio element's ended event while a segment plays: handleAudioEnd.
HandleAudioEnd ==
  /\ currentScreen = "session"
  /\ scrIsPlaying
  /\ Quiescent
  /\ IF currentSegmentIndex < NumSegments - 1
     THEN NextSegment("handleAudioEnd")
     ELSE WorkoutEnd("handleAudioEnd")

\* The feedback request of a handleWorkoutEnd settles: onWorkoutComplete shows
\* the complete screen; a mounted session screen unmounts (stopTracking).
FeedbackSettled ==
  /\ pendingEnds > 0
  /\ Quiescent
  /\ pendingEnds' = pendingEnds - 1
  /\ currentScreen' = "complete"
  /\ IF currentScreen = "session"
     THEN stopTracking /\ SessionUnmount
     ELSE UNCHANGED <<isPlaying, trackingInterval, activeTimers, scrIsPlaying,
                      currentSegmentIndex, isGeneratingAudio>>
  /\ ret' = Returned("onWorkoutComplete", FALSE)
  /\ UNCHANGED <<env, audioPlaybackTime, onProgressUpdate, storageVars, providerVars,
                 audioProgress, historyVars>>

\* The Back button of the session screen: the screen unmounts (stopTracking).
Back ==
  /\ currentScreen = "session"
  /\ Quiescent
  /\ currentScreen' = "workout"
  /\ stopTracking
  /\ SessionUnmount
  /\ ret' = Returned("back", FALSE)
  /\ UNCHANGED <<env, audioPlaybackTime, onProgressUpdate, storageVars, providerVars,
                 audioProgress, pendingEnds, historyVars>>

(***************************************************************************)
(* The application from page load, on one calendar day.                    *)
(***************************************************************************)
\* A weekday noon in a zone without a transition, the default weekly goal.
DefaultEnv ==
  [dow |-> 3, tod |-> 12, dstDay |-> 0, dstShift |-> 0, tz |-> 0,
   weeklyGoal |-> DefaultWeeklyGoal]

\* Page loaded with empty storage: the tracker as constructed, the providers
\* mounted, LOAD_PROGRESS dispatched with {} and defaultStats.
Init ==
  /\ env = DefaultEnv
  /\ audioPlaybackTime = 0
  /\ isPlaying = FALSE
  /\ trackingInterval = FALSE
  /\ activeTimers = 0
  /\ onProgressUpdate = "null"
  /\ lsDailyProgress = Absent
  /\ lsUserStats = Absent
  /\ lsUserProfile = Absent
  /\ lsWorkoutHistory = Absent
  /\ lsDemoMode = FALSE
  /\ storageFull = FALSE
  /\ backup = NoBackup
  /\ ctxDailyProgress = <<>>
  /\ ctxUserStats = defaultStats
  /\ ctxIsLoading = FALSE
  /\ clsDailyProgress = <<>>
  /\ dpChanged = FALSE
  /\ statsInFlight = <<>>
  /\ audioProgress = 0
  /\ currentScreen = "home"
  /\ scrIsPlaying = FALSE
  /\ currentSegmentIndex = 0
  /\ isGeneratingAudio = FALSE
  /\ pendingEnds = 0
  /\ audioEnded = FALSE
  /\ resultEvaluated = FALSE
  /\ playedClock = 0
  /\ timerDue = 0
  /\ beforeDemo = <<Absent, Absent>>
  /\ renderPending = FALSE
  /\ refreshRuns = 0
  /\ ret = Returned("load", FALSE)

Next ==
  \/ \E screen \in {"home", "workout"} : Navigate(screen)
  \/ SessionMount
  \/ AudioSequenceReady
  \/ HandlePlayPause
  \/ HandleNextSegment
  \/ HandleAudioEnd
  \/ HandleWorkoutEnd
  \/ FeedbackSettled
  \/ Back
  \/ Tick
  \/ StatsContinuation
  \/ RenderAndEffects

Spec == Init /\ [][Next]_vars

(***************************************************************************)
(* A session that plays on past the target.                                *)
(***************************************************************************)
\* Most timer ticks counted in a session played past the target (the target
\* is tick 2700, 101 % is reached at tick 2714).
MaxOvertimeTicks == 2715

\* The first session after a page load with empty storage has been playing
\* for the target time: every tick so far was counted and reported.
InitOvertime ==
  /\ env = DefaultEnv
  /\ audioPlaybackTime = targetTime
  /\ isPlaying = TRUE
  /\ trackingInterval = TRUE
  /\ activeTimers = 1
  /\ onProgressUpdate = "updateProgress"
  /\ lsDailyProgress = Absent
  /\ lsUserStats = Absent
  /\ lsUserProfile = Absent
  /\ lsWorkoutHistory = Absent
  /\ lsDemoMode = FALSE
  /\ storageFull = FALSE
  /\ backup = NoBackup
  /\ ctxDailyProgress = <<>>
  /\ ctxUserStats = defaultStats
  /\ ctxIsLoading = FALSE
  /\ clsDailyProgress = <<>>
  /\ dpChanged = FALSE
  /\ statsInFlight = <<>>
  /\ audioProgress = completionPercentage(targetTime)
  /\ currentScreen = "session"
  /\ scrIsPlaying = TRUE
  /\ currentSegmentIndex \in 0..(NumSegments - 1)
  /\ isGeneratingAudio = FALSE
  /\ pendingEnds = 0
  /\ audioEnded = FALSE
  /\ resultEvaluated = FALSE
  /\ playedClock = 0
  /\ timerDue = 0
  /\ beforeDemo = <<Absent, Absent>>
  /\ renderPending = FALSE
  /\ refreshRuns = 0
  /\ ret = Returned("tick", TRUE)

OvertimeTick == TickUpTo(MaxOvertimeTicks)

NextOvertime ==
  \/ OvertimeTick
  \/ HandlePlayPause
  \/ HandleNextSegment
  \/ HandleAudioEnd
  \/ HandleWorkoutEnd
  \/ FeedbackSettled
  \/ StatsContinuation
  \/ RenderAndEffects

SpecOvertime == InitOvertime /\ [][NextOvertime]_vars

(***************************************************************************)
(* The tracker under any order of calls to its interface.                  *)
(***************************************************************************)
\* Most timer ticks counted in this specification.
MaxTrackerTicks == 6

\* What every call of the tracker interface leaves alone.
TrackerCallFrame ==
  UNCHANGED <<env, storageVars, providerVars, screenVars, historyVars>>

CallStartSession ==
  /\ startSession
  /\ ret' = Returned("startSession", FALSE)
  /\ UNCHANGED <<trackingInterval, activeTimers, onProgressUpdate, audioProgress>>
  /\ TrackerCallFrame

CallStartPlaybackTracking ==
  /\ startPlaybackTracking
  /\ ret' = Returned("startPlaybackTracking", FALSE)
  /\ UNCHANGED <<audioPlaybackTime, isPlaying, onProgressUpdate, audioProgress>>
  /\ TrackerCallFrame

CallStopTracking ==
  /\ stopTracking
  /\ ret' = Returned("stopTracking", FALSE)
  /\ UNCHANGED <<audioPlaybackTime, onProgressUpdate, audioProgress>>
  /\ TrackerCallFrame

\* onAudioPlay / onAudioPause
CallOnAudioPlay ==
  /\ isPlaying' = TRUE
  /\ ret' = Returned("onAudioPlay", FALSE)
  /\ UNCHANGED <<audioPlaybackTime, trackingInterval, activeTimers, onProgressUpdate,
                 audioProgress>>
  /\ TrackerCallFrame

CallOnAudioPause ==
  /\ isPlaying' = FALSE
  /\ ret' = Returned("onAudioPause", FALSE)
  /\ UNCHANGED <<audioPlaybackTime, trackingInterval, activeTimers, onProgressUpdate,
                 audioProgress>>
  /\ TrackerCallFrame

\* WorkoutProvider.startWorkout: START_WORKOUT, startSession,
\* setProgressCallback, startPlaybackTracking.
StartWorkout ==
  /\ audioProgress' = 0
  /\ startSession
  /\ onProgressUpdate' = "updateProgress"
  /\ startPlaybackTracking
  /\ ret' = Returned("startWorkout", FALSE)
  /\ TrackerCallFrame

TrackerTick == TickUpTo(MaxTrackerTicks)

NextTracker ==
  \/ CallStartSession
  \/ CallStartPlaybackTracking
  \/ CallStopTracking
  \/ CallOnAudioPlay
  \/ CallOnAudioPause
  \/ StartWorkout
  \/ TrackerTick

SpecTracker == Init /\ [][NextTracker]_vars

(***************************************************************************)
(* Play and pause against the wall clock.                                  *)
(***************************************************************************)
\* setInterval(..., 1000): the period of the tracker's timer in ms.
TickPeriod == 1000

\* The step of the wall clock: presses and firings fall on half periods.
Quantum == TickPeriod \div 2

\* Most seconds of playing followed.
MaxClockSeconds == 4

\* A session screen mounted after a page load with empty storage, its audio
\* sequence ready, play not yet pressed.
InitTimed ==
  /\ env = DefaultEnv
  /\ audioPlaybackTime = 0
  /\ isPlaying = FALSE
  /\ trackingInterval = FALSE
  /\ activeTimers = 0
  /\ onProgressUpdate = "updateProgress"
  /\ lsDailyProgress = Absent
  /\ lsUserStats = Absent
  /\ lsUserProfile = Absent
  /\ lsWorkoutHistory = Absent
  /\ lsDemoMode = FALSE
  /\ storageFull = FALSE
  /\ backup = NoBackup
  /\ ctxDailyProgress = <<>>
  /\ ctxUserStats = defaultStats
  /\ ctxIsLoading = FALSE
  /\ clsDailyProgress = <<>>
  /\ dpChanged = FALSE
  /\ statsInFlight = <<>>
  /\ audioProgress = 0
  /\ currentScreen = "session"
  /\ scrIsPlaying = FALSE
  /\ currentSegmentIndex = 0
  /\ isGeneratingAudio = FALSE
  /\ pendingEnds = 0
  /\ audioEnded = FALSE
  /\ resultEvaluated = FALSE
  /\ playedClock = 0
  /\ timerDue = 0
  /\ beforeDemo = <<Absent, Absent>>
  /\ renderPending = FALSE
  /\ refreshRuns = 0
  /\ ret = Returned("generateAudioSequence", FALSE)

\* The play/pause button pressed now, after any firing that is due: a play
\* press creates a new interval, which first fires one period from now.
TimedPlayPause ==
  /\ activeTimers > 0 => timerDue > 0
  /\ handlePlayPause
  /\ timerDue' = IF scrIsPlaying THEN timerDue ELSE TickPeriod
  /\ UNCHANGED <<audioEnded, resultEvaluated, playedClock, beforeDemo, effectVars>>

\* The live interval fires when it is due and is due again a period later.
TimedTick ==
  /\ timerDue = 0
  /\ IntervalCallback(MaxClockSeconds)
  /\ timerDue' = TickPeriod
  /\ UNCHANGED <<audioEnded, resultEvaluated, playedClock, beforeDemo, effectVars>>

\* Half a period passes with no press; a due timer fires first.
Elapse ==
  /\ activeTimers > 0 => timerDue > 0
  /\ playedClock < MaxClockSeconds * 1000
  /\ playedClock' = IF scrIsPlaying THEN playedClock + Quantum ELSE playedClock
  /\ timerDue' = IF activeTimers > 0 THEN timerDue - Quantum ELSE timerDue
  /\ ret' = Returned("elapse", FALSE)
  /\ UNCHANGED <<env, trackerVars, storageVars, providerVars, audioProgress,
                 screenVars, audioEnded, resultEvaluated, beforeDemo, effectVars>>

NextTimed ==
  \/ TimedPlayPause
  \/ TimedTick
  \/ Elapse

SpecTimed == InitTimed /\ [][NextTimed]_vars

(***************************************************************************)
(* The statistics functions on drawn progress stores.                      *)
(***************************************************************************)
\* The toDateString key of the local calendar day d days from today.
DayKey(d) == [fmt |-> "toDateString", day |-> d]

\* Day entries as sessions and imports leave them: a completed day of 36
\* minutes, an incomplete day of 20 minutes.
CompletedEntry == [completed |-> TRUE, audioMinutes |-> 36, completionPercentage |-> 80]
IncompleteEntry == [completed |-> FALSE, audioMinutes |-> 20, completionPercentage |-> 44]

\* The progress stores over the days -back..0: each day absent, completed or
\* incomplete.
StoresOver(back) ==
  { [k \in {DayKey(d) : d \in {x \in (0 - back)..0 : f[x] # "absent"}} |->
       IF f[k.day] = "completed" THEN CompletedEntry ELSE IncompleteEntry] :
      f \in [((0 - back)..0) -> {"absent", "completed", "incomplete"}] }

\* A page that has just loaded the daily-progress item `item` from
\* localStorage in environment e, with setItem failing or not: LOAD_PROGRESS
\* is dispatched, the re-render and its effects are pending.
LoadedFrom(e, item, full) ==
  /\ env = e
  /\ audioPlaybackTime = 0
  /\ isPlaying = FALSE
  /\ trackingInterval = FALSE
  /\ activeTimers = 0
  /\ onProgressUpdate = "null"
  /\ lsDailyProgress = item
  /\ lsUserStats = Absent
  /\ lsUserProfile = Absent
  /\ lsWorkoutHistory = Absent
  /\ lsDemoMode = FALSE
  /\ storageFull = full
  /\ backup = NoBackup
  /\ ctxDailyProgress = (IF item.kind = "json" THEN item.data ELSE <<>>)
  /\ ctxUserStats = defaultStats
  /\ ctxIsLoading = FALSE
  /\ clsDailyProgress = <<>>
  /\ dpChanged = TRUE
  /\ statsInFlight = <<>>
  /\ audioProgress = 0
  /\ currentScreen = "home"
  /\ scrIsPlaying = FALSE
  /\ currentSegmentIndex = 0
  /\ isGeneratingAudio = FALSE
  /\ pendingEnds = 0
  /\ audioEnded = FALSE
  /\ resultEvaluated = FALSE
  /\ playedClock = 0
  /\ timerDue = 0
  /\ beforeDemo = <<Absent, Absent>>
  /\ renderPending = FALSE
  /\ refreshRuns = 0
  /\ ret = Returned("load", FALSE)

\* The same for a stored progress map, with storage accepting writes.
LoadedWith(e, store) == LoadedFrom(e, Json(store), FALSE)

\* AudioTracker.updateStreakAndStats(progressData) with the stored progress:
\* it stores the statsData it computes under the user-stats key.
CallUpdateStreakAndStats ==
  /\ lsDailyProgress.kind = "json"
  /\ ret.op # "updateStreakAndStats"
  /\ lsUserStats' = SetItem(lsUserStats, Json(StatsOf(lsDailyProgress.data)))
  /\ ret' = [Returned("updateStreakAndStats", FALSE) EXCEPT !.threw = storageFull]
  /\ UNCHANGED <<env, trackerVars, lsDailyProgress, otherStorageVars, providerVars,
                 audioProgress, screenVars, historyVars>>

NextStats ==
  \/ CallUpdateStreakAndStats
  \/ RenderAndEffects

\* Streak inputs: stores over the last days, at the first hour, at noon and
\* at the last hour of today, with no clock change or with one 23-hour or
\* 25-hour day among the stored days.
InitStreak ==
  \E store \in StoresOver(MaxStreakBack) :
  \E shift \in {0 - 1, 0, 1} :
  \E dday \in (0 - MaxStreakBack)..0 :
  \E last \in {FALSE, TRUE} :
  \E tod \in {0, 12} :
    /\ shift = 0 => dday = 0
    /\ last => tod = 0
    /\ LoadedWith([dow |-> 3,
                   tod |-> IF last
                           THEN (IF shift # 0 /\ dday = 0 THEN 24 + shift ELSE 24) - 1
                           ELSE tod,
                   dstDay |-> dday, dstShift |-> shift, tz |-> 0,
                   weeklyGoal |-> DefaultWeeklyGoal], store)

SpecStreak == InitStreak /\ [][NextStats]_vars

\* Weekly and total inputs: stores over the last days, today a Wednesday or a
\* Saturday, and every weekly goal up to MaxGoal.
InitStats ==
  \E store \in StoresOver(MaxWeekBack) :
  \E dow \in {3, 6} :
  \E goal \in 1..MaxGoal :
    LoadedWith([dow |-> dow, tod |-> 12, dstDay |-> 0, dstShift |-> 0, tz |-> 0,
                weeklyGoal |-> goal], store)

SpecStats == InitStats /\ [][NextStats]_vars

(***************************************************************************)
(* The provider over page loads, updates and imports.                      *)
(***************************************************************************)
\* Most updateDailyProgress calls suspended at their await at once.
MaxInFlight == 2

\* StorageUtils.getDailyProgress: {} for an absent or unparsable item.
getDailyProgress(item) == IF item.kind = "json" THEN item.data ELSE <<>>

\* StorageUtils.getUserStats() || defaultStats
getUserStatsOrDefault(item) == IF item.kind = "json" THEN item.data ELSE defaultStats

\* A consumer of the context calls updateDailyProgress(date, progress).
CallUpdateDailyProgress(date, progress) ==
  /\ Len(statsInFlight) < MaxInFlight
  /\ updateDailyProgress(date, progress)
  /\ ret' = [Returned("updateDailyProgress", FALSE) EXCEPT !.arg = <<date, progress>>]
  /\ UNCHANGED <<env, trackerVars, audioProgress, screenVars, historyVars>>

\* A field of a parsed backup: missing or null, or present with a value.
NoField == [present |-> FALSE, value |-> <<>>, shaped |-> TRUE]
Field(v) == [present |-> TRUE, value |-> v, shaped |-> TRUE]

\* A parsed backup object.
Snapshot(dp, us, up, wh) ==
  [kind |-> "object", dailyProgress |-> dp, userStats |-> us,
   userProfile |-> up, workoutHistory |-> wh]

Backups ==
  { Snapshot(dp, us, NoField, NoField) :
      dp \in {NoField, Field(<<>>), Field((DayKey(0) :> CompletedEntry))},
      us \in {NoField, Field(StatsOf((DayKey(0) :> CompletedEntry)))} }

\* JSON.stringify of an imported field; a value of the wrong shape is stored
\* like any other.
Stringify(field) ==
  IF field.shaped THEN Json(field.value) ELSE [kind |-> "misshaped", data |-> <<>>]

\* importData writing the daily-progress key: saveDailyProgress(data.dailyProgress)
importDailyProgressMerged(item, field) ==
  SetItem(item, IF item.kind = "json" /\ field.shaped
                THEN Json([k \in (DOMAIN item.data) \cup (DOMAIN field.value) |->
                             IF k \in DOMAIN field.value THEN field.value[k]
                             ELSE item.data[k]])
                ELSE Stringify(field))

importDailyProgress(item, field) == SetItem(item, Stringify(field))

\* StorageUtils.importData(jsonData): a text that does not parse is refused;
\* otherwise every field present in the parsed object overwrites its storage
\* key, whatever its shape, and the call returns true.  The history write is
\* the one setItem outside a logging try/catch.  The provider is not told.
importData(data) ==
  IF data.kind = "unparsable"
  THEN /\ ret' = [Returned("importData", FALSE) EXCEPT !.arg = data, !.failed = TRUE]
       /\ UNCHANGED storageVars
  ELSE /\ lsDailyProgress' = IF data.dailyProgress.present
                             THEN importDailyProgress(lsDailyProgress, data.dailyProgress)
                             ELSE lsDailyProgress
       /\ lsUserStats' = IF data.userStats.present
                         THEN SetItem(lsUserStats, Stringify(data.userStats))
                         ELSE lsUserStats
       /\ lsUserProfile' = IF data.userProfile.present
                           THEN SetItem(lsUserProfile, Stringify(data.userProfile))
                           ELSE lsUserProfile
       \* data.workoutHistory && Array.isArray(data.workoutHistory)
       /\ lsWorkoutHistory' = IF data.workoutHistory.present /\ data.workoutHistory.shaped
                              THEN SetItem(lsWorkoutHistory, Json(data.workoutHistory.value))
                              ELSE lsWorkoutHistory
       /\ ret' = [Returned("importData", FALSE) EXCEPT
                    !.arg = data,
                    !.failed = (data.workoutHistory.present /\ data.workoutHistory.shaped
                                /\ storageFull)]
       /\ UNCHANGED <<lsDemoMode, storageFull, backup>>

\* importData called with one of the backups drawn for the provider.
ImportData ==
  \E data \in Backups :
  /\ Quiescent
  /\ importData(data)
  /\ UNCHANGED <<env, trackerVars, providerVars, audioProgress, screenVars, historyVars>>

\* A page load that finds dailyItem and statsItem in storage: memory starts
\* over and the provider's load effect dispatches LOAD_PROGRESS with them.
LoadFrom(dailyItem, statsItem) ==
  /\ audioPlaybackTime' = 0
  /\ isPlaying' = FALSE
  /\ trackingInterval' = FALSE
  /\ activeTimers' = 0
  /\ onProgressUpdate' = "null"
  /\ ctxDailyProgress' = getDailyProgress(dailyItem)
  /\ ctxUserStats' = getUserStatsOrDefault(statsItem)
  /\ ctxIsLoading' = FALSE
  /\ clsDailyProgress' = <<>>
  /\ dpChanged' = TRUE
  /\ statsInFlight' = <<>>
  /\ audioProgress' = 0
  /\ currentScreen' = "home"
  /\ SessionUnmount
  /\ pendingEnds' = 0
  /\ audioEnded' = FALSE
  /\ resultEvaluated' = FALSE
  /\ playedClock' = 0
  /\ timerDue' = 0
  /\ ret' = Returned("load", FALSE)

\* The page is loaded again.
Reload ==
  /\ Quiescent
  /\ ret.op # "load"
  /\ LoadFrom(lsDailyProgress, lsUserStats)
  /\ UNCHANGED <<env, storageVars, beforeDemo, effectVars>>

NextProgress ==
  \/ \E d \in {0 - 1, 0} : \E e \in {CompletedEntry, IncompleteEntry} :
       CallUpdateDailyProgress(DayKey(d), e)
  \/ StatsContinuation
  \/ RenderAndEffects
  \/ ImportData
  \/ Reload

SpecProgress == Init /\ [][NextProgress]_vars

(***************************************************************************)
(* Demo mode (DemoDataGenerator, DemoModeToggle).                          *)
(***************************************************************************)
\* Days of demo data generated (the loop of generateDemoProgress runs 30).
DemoDays == 2

\* The entries generateDemoProgress can write for a day: audioMinutes drawn
\* from [30, 55), completionPercentage min(100, audioMinutes / 36 * 100),
\* completed when that is at least 80.
DemoEntry(minutes) ==
  LET percentage ==
        IF minutes >= 36 THEN 100 ELSE MathRound(minutes * 100, 36)
  IN [completed |-> percentage >= 80,
      audioMinutes |-> minutes,
      completionPercentage |-> percentage]

\* generateDemoProgress: every day of the last DemoDays left out or given an
\* entry, under the key format(subDays(today, i), 'yyyy-MM-dd').
DemoProgresses ==
  { [k \in {FormatIso(i) : i \in {x \in 0..(DemoDays - 1) : f[x] # 0}} |->
       DemoEntry(f[0 - k.day])] :
      f \in [0..(DemoDays - 1) -> {0, 30, 45}] }

\* Object.keys(progress).sort().reverse(): ISO keys, latest day first.
RECURSIVE IsoDesc(_)
IsoDesc(keys) ==
  IF keys = {} THEN <<>>
  ELSE LET top == CHOOSE k \in keys : \A j \in keys : j.day <= k.day
       IN <<top>> \o IsoDesc(keys \ {top})

\* The streak loop of generateDemoStats: count from the latest key on until
\* an entry is not completed.
RECURSIVE DemoStreak(_, _, _)
DemoStreak(progress, dates, i) ==
  IF i > Len(dates) THEN 0
  ELSE IF progress[dates[i]].completed THEN 1 + DemoStreak(progress, dates, i + 1)
  ELSE 0

\* generateDemoStats: the week starts on Monday and is keyed in ISO text; the
\* weekly goal is the literal 5.
generateDemoStats(progress) ==
  LET weekStart == 0 - ((env.dow + 6) % 7)
      currentWeekDates ==
        [i \in 1..7 |-> [fmt |-> "yyyy-MM-dd", day |-> weekStart + (i - 1)]]
      weeklyCompleted == Cardinality({i \in 1..7 :
          /\ currentWeekDates[i] \in DOMAIN progress
          /\ progress[currentWeekDates[i]].completed})
  IN [currentStreak |-> DemoStreak(progress, IsoDesc(DOMAIN progress), 1),
      weeklyStats |-> [daysCompleted |-> weeklyCompleted,
                       weeklyGoal |-> 5,
                       daysRemaining |-> MaxZero(5 - weeklyCompleted),
                       weeklyPercentage |-> MathRound(weeklyCompleted * 100, 5),
                       currentWeekDates |-> currentWeekDates],
      totalWorkouts |-> TotalWorkouts(progress),
      totalMinutes |-> TotalMinutes(progress)]

\* DemoModeToggle.handleToggle: disableDemo or enableDemo, then reload the
\* page.  A failing setItem throws out of enableDemoMode before the reload.
HandleToggle ==
  /\ Quiescent
  /\ IF lsDemoMode
     THEN /\ lsDemoMode' = FALSE
          /\ lsDailyProgress' = Absent
          /\ lsUserStats' = Absent
          /\ LoadFrom(Absent, Absent)
          /\ UNCHANGED <<env, lsUserProfile, lsWorkoutHistory, storageFull, backup,
                         beforeDemo, effectVars>>
     ELSE IF storageFull
     THEN /\ ret' = [Returned("handleToggle", FALSE) EXCEPT !.threw = TRUE]
          /\ UNCHANGED <<env, trackerVars, storageVars, providerVars, audioProgress,
                         screenVars, historyVars>>
     ELSE \E demoProgress \in DemoProgresses :
          /\ lsDemoMode' = TRUE
          /\ lsDailyProgress' = Json(demoProgress)
          /\ lsUserStats' = Json(generateDemoStats(demoProgress))
          /\ LoadFrom(Json(demoProgress), Json(generateDemoStats(demoProgress)))
          /\ beforeDemo' = <<lsDailyProgress, lsUserStats>>
          /\ UNCHANGED effectVars
          /\ UNCHANGED <<env, lsUserProfile, lsWorkoutHistory, storageFull, backup>>

\* A completed session stores today's outcome through the context.
CompleteToday == CallUpdateDailyProgress(ToDateStringNow, CompletedEntry)

NextDemo ==
  \/ HandleToggle
  \/ CompleteToday
  \/ StatsContinuation
  \/ RenderAndEffects
  \/ Reload

SpecDemo == Init /\ [][NextDemo]_vars

(***************************************************************************)
(* Backup and restore (StorageUtils.exportData, importData).               *)
(***************************************************************************)
\* Most sessions kept in the stored workout history (the code keeps 100).
MaxHistory == 1

\* A field of a backup that holds a value of the wrong shape (a string where
\* an object is expected).
Misshaped == [present |-> TRUE, value |-> <<>>, shaped |-> FALSE]

\* What a getter hands exportData for an item: the parsed value, or the
\* getter's default for an absent or unparsable item.
Exported(item, default) ==
  IF item.kind = "json" THEN Field(item.data)
  ELSE IF item.kind = "misshaped" THEN Misshaped
  ELSE default

\* The object exportData serialises from the four keys.
exportData ==
  Snapshot(Exported(lsDailyProgress, Field(<<>>)),
           Exported(lsUserStats, NoField),
           Exported(lsUserProfile, NoField),
           Exported(lsWorkoutHistory, Field(<<>>)))

\* The user exports a backup and keeps the text.
ExportData ==
  /\ backup' = [kind |-> "text", text |-> exportData]
  /\ ret' = [Returned("exportData", FALSE) EXCEPT !.value = exportData]
  /\ UNCHANGED <<env, trackerVars, lsDailyProgress, lsUserStats, lsUserProfile,
                 lsWorkoutHistory, lsDemoMode, storageFull, providerVars,
                 audioProgress, screenVars, historyVars>>

\* The user restores the backup they kept.
ImportBackup ==
  /\ backup.kind = "text"
  /\ importData(backup.text)
  /\ UNCHANGED <<env, trackerVars, providerVars, audioProgress, screenVars, historyVars>>

\* Texts that are no backup: one that does not parse, an object without
\* fields, and objects whose dailyProgress or userStats has the wrong shape.
NonBackups ==
  { [kind |-> "unparsable"],
    Snapshot(NoField, NoField, NoField, NoField),
    Snapshot(Misshaped, NoField, NoField, NoField),
    Snapshot(Field((DayKey(0) :> CompletedEntry)), Misshaped, NoField, NoField) }

\* importData called with a text that is no backup.
ImportNonBackup ==
  \E data \in NonBackups :
  /\ importData(data)
  /\ UNCHANGED <<env, trackerVars, providerVars, audioProgress, screenVars, historyVars>>

\* StorageUtils.saveDailyProgress, saveUserStats (stats of that progress) and
\* saveUserProfile called by the application.
SaveProgress ==
  \E progress \in {(DayKey(0) :> CompletedEntry), (DayKey(0 - 1) :> IncompleteEntry)} :
  /\ lsDailyProgress' = SetItem(lsDailyProgress, Json(progress))
  /\ lsUserStats' = SetItem(lsUserStats, Json(StatsOf(progress)))
  /\ ret' = Returned("saveDailyProgress", FALSE)
  /\ UNCHANGED <<env, trackerVars, otherStorageVars, providerVars, audioProgress,
                 screenVars, historyVars>>

SaveUserProfile ==
  \E name \in {"A", "B"} :
  /\ lsUserProfile' = SetItem(lsUserProfile, Json([name |-> name]))
  /\ ret' = Returned("saveUserProfile", FALSE)
  /\ UNCHANGED <<env, trackerVars, lsDailyProgress, lsUserStats, lsWorkoutHistory,
                 lsDemoMode, storageFull, backup, providerVars, audioProgress,
                 screenVars, historyVars>>

\* StorageUtils.saveWorkoutSession: push onto the stored history.
SaveWorkoutSession ==
  LET history == IF lsWorkoutHistory.kind = "json" THEN lsWorkoutHistory.data ELSE <<>>
  IN /\ Len(history) < MaxHistory
     /\ lsWorkoutHistory' = SetItem(lsWorkoutHistory, Json(Append(history, [id |-> Len(history) + 1])))
     /\ ret' = Returned("saveWorkoutSession", FALSE)
     /\ UNCHANGED <<env, trackerVars, lsDailyProgress, lsUserStats, lsUserProfile,
                    lsDemoMode, storageFull, backup, providerVars, audioProgress,
                    screenVars, historyVars>>

\* StorageUtils.clearAllData: remove the four keys.
ClearAllData ==
  /\ lsDailyProgress' = Absent
  /\ lsUserStats' = Absent
  /\ lsUserProfile' = Absent
  /\ lsWorkoutHistory' = Absent
  /\ ret' = Returned("clearAllData", FALSE)
  /\ UNCHANGED <<env, trackerVars, lsDemoMode, storageFull, backup, providerVars,
                 audioProgress, screenVars, historyVars>>

NextImport ==
  \/ SaveProgress
  \/ SaveUserProfile
  \/ SaveWorkoutSession
  \/ ClearAllData
  \/ ExportData
  \/ ImportBackup
  \/ ImportNonBackup

SpecImport == Init /\ [][NextImport]_vars

(***************************************************************************)
(* The progress store under absent or unparsable items and failing writes. *)
(***************************************************************************)
\* Days back from today the stored maps of this specification cover.
MaxStoreBack == 1

\* StorageUtils.getDailyProgress(): the catch returns {}.
StorageGetDailyProgress ==
  /\ ret.op # "StorageUtils.getDailyProgress"
  /\ ret' = [Returned("StorageUtils.getDailyProgress", FALSE) EXCEPT
               !.value = getDailyProgress(lsDailyProgress)]
  /\ UNCHANGED <<env, trackerVars, storageVars, providerVars, audioProgress,
                 screenVars, historyVars>>

\* AudioTracker.getDailyProgress(): JSON.parse outside any try.
TrackerGetDailyProgress ==
  /\ ret.op # "AudioTracker.getDailyProgress"
  /\ ret' = [Returned("AudioTracker.getDailyProgress", FALSE) EXCEPT
               !.value = getDailyProgress(lsDailyProgress),
               !.threw = (lsDailyProgress.kind = "malformed")]
  /\ UNCHANGED <<env, trackerVars, storageVars, providerVars, audioProgress,
                 screenVars, historyVars>>

\* AudioTracker.markDailyGoalComplete(sessionResult) for a session that met
\* the threshold: the catch logs and rethrows, so the promise rejects when
\* JSON.parse or setItem throws.
CallMarkDailyGoalComplete ==
  \E ms \in {36 * 60000, 45 * 60000} :
  LET result == sessionResult(ms)
      after == markDailyGoalComplete(result, lsDailyProgress, lsUserStats)
      rejected == lsDailyProgress.kind = "malformed" \/ storageFull
  IN /\ lsDailyProgress' = after[1]
     /\ lsUserStats' = after[2]
     /\ ret' = [Returned("markDailyGoalComplete", FALSE) EXCEPT
                  !.arg = <<ToDateStringNow, DayEntry(result)>>,
                  !.value = IF rejected THEN <<>> ELSE after[1].data,
                  !.threw = rejected]
     /\ UNCHANGED <<env, trackerVars, otherStorageVars, providerVars, audioProgress,
                    screenVars, historyVars>>

\* A consumer stores an outcome for one of the last days through the context,
\* once the provider has settled from the call before.
UpdateDay ==
  \E d \in (0 - MaxStoreBack)..0 : \E e \in {CompletedEntry, IncompleteEntry} :
    /\ Quiescent
    /\ CallUpdateDailyProgress(DayKey(d), e)

NextStore ==
  \/ StorageGetDailyProgress
  \/ TrackerGetDailyProgress
  \/ CallMarkDailyGoalComplete
  \/ UpdateDay
  \/ StatsContinuation
  \/ RenderAndEffects

\* The page has loaded an absent item, a text that does not parse or a stored
\* map, and setItem fails (quota exceeded) or not.
InitStore ==
  \E item \in {Absent, Malformed} \cup {Json(store) : store \in StoresOver(MaxStoreBack)} :
  \E full \in BOOLEAN :
    LoadedFrom(DefaultEnv, item, full)

SpecStore == InitStore /\ [][NextStore]_vars

(***************************************************************************)
(* Properties of the session (checked under Spec).                         *)
(***************************************************************************)
\* C1: with target 45 and threshold 0.8, every evaluation of a playback time
\* reached by ticks returns completed exactly when that time is at least
\* 2,160,000 ms (false one tick short, true at exactly 2,160,000).
C1_CompletedIffThreshold ==
  ret.evaluated =>
    /\ ret.completed = (ret.ms >= 2160000)
    /\ (ret.ms = 2159000 => ~ret.completed)
    /\ (ret.ms = 2160000 => ret.completed)

\* An evaluation at exactly 2,160,000 ms of ticked playback returned completed.
C1_Witness == ret.evaluated /\ ret.ms = 2160000 /\ ret.completed

\* C2: the accumulated playback time increases only while the session
\* screen's playing flag is true.
C2_CountsOnlyWhilePlaying ==
  [][audioPlaybackTime' > audioPlaybackTime => scrIsPlaying]_vars

\* C5: once onAudioEnd has been called in a session, the accumulated playback
\* time does not change until startSession is called again.
C5_EndedIsTerminal ==
  [][(audioEnded /\ audioEnded') => audioPlaybackTime' = audioPlaybackTime]_vars

\* C6: a timer tick that fires while the tracker is not playing leaves the
\* accumulated playback time unchanged and does not call the progress callback.
C6_IdleTickIsNoOp ==
  [][(ret'.op = "tick" /\ ~isPlaying) =>
       /\ audioPlaybackTime' = audioPlaybackTime
       /\ audioProgress' = audioProgress
       /\ ~ret'.notified]_vars

\* A timer fired while the tracker was paused with playback time on the clock.
C6_Witness ==
  ret.op = "tick" /\ ~isPlaying /\ activeTimers > 0 /\ audioPlaybackTime > 0

\* C7: whenever a session with playback time on the clock is left, the
\* completion evaluator has produced a result for that session.
C7_LeavingEvaluates ==
  [][(currentScreen = "session" /\ audioPlaybackTime > 0 /\ currentScreen' # "session")
       => resultEvaluated]_vars

\* C18: when a session ends (handleWorkoutEnd) or its screen unmounts, no
\* interval timer of the tracker remains active.
C18_TimerCancelledAtEnd ==
  [][(ret'.evaluated \/ (currentScreen = "session" /\ currentScreen' # "session"))
       => (activeTimers' = 0 /\ ~trackingInterval')]_vars

\* C19: for a playback time of whole seconds the reported audio minutes are
\* ms / 60000 rounded to the nearest integer, halves up; 2,160,000 ms gives 36.
C19_MinutesRoundedHalfUp ==
  ret.evaluated =>
    /\ ret.ms % 1000 = 0
    /\ 2 * 60000 * ret.minutes - 60000 <= 2 * ret.ms
    /\ 2 * ret.ms < 2 * 60000 * ret.minutes + 60000
    /\ (ret.ms = 2160000 => ret.minutes = 36)

\* An evaluation at 35.5 minutes of playback reported 36 minutes.
C19_Witness == ret.evaluated /\ ret.ms = 2130000 /\ ret.minutes = 36

\* p is 100 * ms / targetTime rounded to the nearest integer, halves up.
IsRoundedPercentage(p, ms) ==
  /\ 2 * targetTime * p - targetTime <= 2 * 100 * ms
  /\ 2 * 100 * ms < 2 * targetTime * p + targetTime

\* C20: the completionPercentage of the session result is
\* round(ms / targetTime * 100) without a cap; for a completed session that
\* value is the one in today's entry of the progress store, in memory and
\* persisted; the workout context holds the uncapped percentage of the
\* playback time after every notified tick.
C20_PercentageUncapped ==
  /\ ret.evaluated => IsRoundedPercentage(ret.pct, ret.ms)
  /\ (ret.evaluated /\ ret.completed) =>
       /\ ctxDailyProgress[ToDateStringNow].completionPercentage = ret.pct
       /\ lsDailyProgress.data[ToDateStringNow].completionPercentage = ret.pct
  /\ (ret.op = "tick" /\ ret.notified) =>
       IsRoundedPercentage(audioProgress, audioPlaybackTime)

\* A session played past the target was evaluated: the result, the stored
\* entry and the workout context hold a percentage above 100.
C20_Witness ==
  /\ ret.evaluated
  /\ ret.pct > 100
  /\ lsDailyProgress.data[ToDateStringNow].completionPercentage > 100
  /\ audioProgress > 100

\* C21 as stated: startSession leaves the tracker with no accumulated time
\* and running, so that ticks count.
C21_StartResetsAndRuns ==
  [][ret'.op = "startSession" => (audioPlaybackTime' = 0 /\ isPlaying')]_vars

\* C21 amended: startSession leaves the tracker with no accumulated time, in
\* a session that has not ended, and not playing: ticks count only after the
\* first onAudioPlay.
C21_StartResetsAndWaits ==
  [][ret'.op = "startSession" =>
       (audioPlaybackTime' = 0 /\ ~isPlaying' /\ ~audioEnded')]_vars

\* A session was started after an earlier one of the same page load had
\* counted playback time (the workout context still shows its percentage).
C21_Witness ==
  ret.op = "startSession" /\ audioProgress > 0 /\ audioPlaybackTime = 0

\* C22: under any order of startPlaybackTracking, stopTracking, startSession,
\* startWorkout, play and pause, at most one interval timer is active, a timer
\* firing while playing adds exactly 1000 ms, and the accumulated time grows
\* in no other step.
C22_SingleTickingAuthority ==
  [][/\ activeTimers' <= 1
     /\ (ret'.op = "tick" /\ isPlaying) => audioPlaybackTime' = audioPlaybackTime + 1000
     /\ audioPlaybackTime' > audioPlaybackTime =>
          (ret'.op = "tick" /\ isPlaying /\ activeTimers = 1)]_vars

\* startPlaybackTracking was called while a timer was active and one timer
\* is active afterwards, with counted time on the clock.
C22_Witness ==
  /\ ret.op \in {"startPlaybackTracking", "startWorkout"}
  /\ activeTimers = 1
  /\ isPlaying
  /\ audioPlaybackTime > 0

\* C23: through any sequence of play and pause presses the accumulated
\* playback time is within one second of the time spent playing (compared
\* when no timer firing is due).
C23_WithinOneSecond ==
  (activeTimers > 0 => timerDue > 0) =>
    /\ audioPlaybackTime - playedClock <= 1000
    /\ playedClock - audioPlaybackTime <= 1000

\* C24: every tick that adds time with a callback registered invokes it with
\* the state after the tick, so the workout context's audioProgress is then
\* the rounded percentage of the new accumulated time.
C24_TickNotifiesNewState ==
  [][(ret'.op = "tick" /\ audioPlaybackTime' # audioPlaybackTime
        /\ onProgressUpdate # "null") =>
       /\ ret'.notified
       /\ 2 * targetTime * audioProgress' - targetTime <= 2 * 100 * audioPlaybackTime'
       /\ 2 * 100 * audioPlaybackTime' < 2 * targetTime * audioProgress' + targetTime]_vars

\* The tick that brought the session to 14 s was reported as 1 %.
C24_Witness ==
  ret.op = "tick" /\ ret.notified /\ audioPlaybackTime = 14000 /\ audioProgress = 1

\* C25: whenever the workout context has just been told the progress of the
\* current playback time, its verdict (audioProgress >= 80) is that of
\* checkWorkoutCompletion for that time.
C25_VerdictsAgree ==
  (ret.op = "tick" /\ ret.notified) =>
    ((audioProgress >= 80) <=> workoutCompleted(audioPlaybackTime))

\* Every entry of the store is a completed one.
AllCompleted(store) == \A k \in DOMAIN store : store[k].completed

\* C26: through any sequence of sessions every day entry, in memory and
\* persisted, has completed = true; a session that ends below the threshold
\* writes nothing, so a day recorded as completed stays completed.
C26_OnlyCompletedWritten ==
  [][/\ AllCompleted(ctxDailyProgress')
     /\ AllCompleted(getDailyProgress(lsDailyProgress'))
     /\ (ret'.evaluated /\ ~ret'.completed) =>
          /\ ctxDailyProgress' = ctxDailyProgress
          /\ lsDailyProgress' = lsDailyProgress
     /\ \A k \in DOMAIN getDailyProgress(lsDailyProgress) :
          k \in DOMAIN getDailyProgress(lsDailyProgress')]_vars

\* A session ended below the threshold on a day already recorded as completed.
C26_Witness ==
  /\ ret.evaluated
  /\ ~ret.completed
  /\ lsDailyProgress.kind = "json"
  /\ ToDateStringNow \in DOMAIN lsDailyProgress.data
  /\ lsDailyProgress.data[ToDateStringNow].completed
  /\ ToDateStringNow \in DOMAIN ctxDailyProgress

\* C28: right after a session screen has mounted and called startSession,
\* the workout context's audioProgress is the tracker's completionPercentage
\* of the new session, which is 0.
C28_ProgressStartsAtZero ==
  ret.op = "startSession" =>
    (audioProgress = 0 /\ audioProgress = completionPercentage(audioPlaybackTime))

(***************************************************************************)
(* Properties of the statistics.                                           *)
(***************************************************************************)
\* Day d holds a completed outcome in the store.
CompletedOn(store, d) == DayKey(d) \in DOMAIN store /\ store[DayKey(d)].completed

\* Today and the k-1 days before it are completed and the day k back is not.
RunOf(store, k) ==
  /\ \A d \in 0..(k - 1) : CompletedOn(store, 0 - d)
  /\ ~CompletedOn(store, 0 - k)

\* C3: when today and the k-1 calendar days before it are completed and the
\* day k days back is not, the streak computed by updateStreakAndStats is k.
C3_StreakIsRunLength ==
  ret.op = "updateStreakAndStats" =>
    \A k \in 1..(MaxStreakBack + 1) :
      RunOf(lsDailyProgress.data, k) => lsUserStats.data.currentStreak = k

\* C4: when today holds no completed outcome, the streak computed by
\* updateStreakAndStats is 0.
C4_NoStreakWithoutToday ==
  (ret.op = "updateStreakAndStats" /\ ~CompletedOn(lsDailyProgress.data, 0)) =>
    lsUserStats.data.currentStreak = 0

\* The totals of a store counted entry by entry: every entry's minutes, and
\* the number of completed entries.
MinutesOfAll(store) ==
  36 * Cardinality({k \in DOMAIN store : store[k].audioMinutes = 36})
  + 20 * Cardinality({k \in DOMAIN store : store[k].audioMinutes = 20})

NumCompleted(store) == Cardinality({k \in DOMAIN store : store[k] = CompletedEntry})

\* C9: totalMinutes is the sum of audioMinutes over all entries, incomplete
\* ones included, and totalWorkouts is the number of completed entries, both
\* after updateStreakAndStats and after refreshStats.
C9_TotalsOverAllEntries ==
  /\ ret.op = "updateStreakAndStats" =>
       /\ lsUserStats.data.totalMinutes = MinutesOfAll(lsDailyProgress.data)
       /\ lsUserStats.data.totalWorkouts = NumCompleted(lsDailyProgress.data)
  /\ ret.op = "refreshStats" =>
       /\ ctxUserStats.totalMinutes = MinutesOfAll(ctxDailyProgress)
       /\ ctxUserStats.totalWorkouts = NumCompleted(ctxDailyProgress)

\* refreshStats has run on a store that holds an incomplete entry next to a
\* completed one.
C9_Witness ==
  /\ ret.op = "refreshStats"
  /\ \E k \in DOMAIN ctxDailyProgress : ctxDailyProgress[k] = IncompleteEntry
  /\ \E k \in DOMAIN ctxDailyProgress : ctxDailyProgress[k] = CompletedEntry
  /\ ctxUserStats.totalMinutes > 36 * ctxUserStats.totalWorkouts

\* C10: weeklyPercentage is c / g * 100 rounded to the nearest integer (halves
\* up) with no cap, daysRemaining is max(0, g - c); for g = 5, c = 5 gives
\* 100 and 0 and c = 6 gives 120 and 0.
C10_WeeklyPercentageUncapped ==
  ret.op = "updateStreakAndStats" =>
    LET w == lsUserStats.data.weeklyStats
        c == w.daysCompleted
        g == w.weeklyGoal
        p == w.weeklyPercentage
    IN /\ g = env.weeklyGoal
       /\ c \in 0..7
       /\ 2 * g * p - g <= 200 * c
       /\ 200 * c < 2 * g * p + g
       /\ w.daysRemaining = (IF g - c > 0 THEN g - c ELSE 0)
       /\ (g = 5 /\ c = 5) => (p = 100 /\ w.daysRemaining = 0)
       /\ (g = 5 /\ c = 6) => (p = 120 /\ w.daysRemaining = 0)

\* Six completed days in a week with goal 5: 120 percent, no day remaining.
C10_Witness ==
  /\ ret.op = "updateStreakAndStats"
  /\ lsUserStats.data.weeklyStats.weeklyGoal = 5
  /\ lsUserStats.data.weeklyStats.daysCompleted = 6
  /\ lsUserStats.data.weeklyStats.weeklyPercentage = 120
  /\ lsUserStats.data.weeklyStats.daysRemaining = 0

\* The statistics fields a screen shows.
Displayed(stats) ==
  [currentStreak |-> stats.currentStreak,
   daysCompleted |-> stats.weeklyStats.daysCompleted,
   weeklyGoal |-> stats.weeklyStats.weeklyGoal,
   daysRemaining |-> stats.weeklyStats.daysRemaining,
   weeklyPercentage |-> stats.weeklyStats.weeklyPercentage,
   totalWorkouts |-> stats.totalWorkouts,
   totalMinutes |-> stats.totalMinutes]

\* C8: once the provider has loaded and its pending effects and awaits have
\* run, userStats equals the statistics derived from dailyProgress alone.
C8_StatsDerivedFromProgress ==
  (Quiescent /\ ~ctxIsLoading) =>
    Displayed(ctxUserStats) = Displayed(StatsOf(ctxDailyProgress))

(***************************************************************************)
(* Properties of the weekly count and of the store's keys.                 *)
(***************************************************************************)
\* C11: after refreshStats, weeklyStats.daysCompleted is the number of days of
\* the current Sunday-to-Saturday week that hold a completed outcome in the
\* store, and lies between 0 and 7.
C11_DaysCompletedCountsWeek ==
  ret.op = "refreshStats" =>
    /\ ctxUserStats.weeklyStats.daysCompleted \in 0..7
    /\ ctxUserStats.weeklyStats.daysCompleted =
         Cardinality({d \in (0 - env.dow)..(6 - env.dow) :
            \E k \in DOMAIN ctxDailyProgress :
               k.day = d /\ ctxDailyProgress[k].completed})

\* C17: all keys of the persisted progress store are in one date format and
\* no calendar day appears under two keys.
C17_OneCanonicalKeyPerDay ==
  lsDailyProgress.kind = "json" =>
    \A k1, k2 \in DOMAIN lsDailyProgress.data :
       /\ k1.fmt = k2.fmt
       /\ k1.day = k2.day => k1 = k2

(***************************************************************************)
(* Properties of backup and restore.                                       *)
(***************************************************************************)
\* Every field of a backup object has the shape exportData gives it.
WellShaped(data) ==
  /\ data.kind = "object"
  /\ data.dailyProgress.present /\ data.dailyProgress.shaped
  /\ data.userStats.shaped
  /\ data.userProfile.shaped
  /\ data.workoutHistory.present /\ data.workoutHistory.shaped

\* The kept backup, exported from a valid state, has just been imported.
BackupRestored(r) ==
  /\ r.op = "importData"
  /\ backup.kind = "text"
  /\ r.arg = backup.text
  /\ WellShaped(backup.text)

C13_BadImportRejected ==
  [][(ret'.op = "importData" /\ ~WellShaped(ret'.arg)) =>
       /\ ret'.failed
       /\ UNCHANGED <<lsDailyProgress, lsUserStats, lsUserProfile, lsWorkoutHistory>>]_vars

(***************************************************************************)
(* Properties of the progress store (checked under SpecStore).             *)
(***************************************************************************)
LoadOps ==
  {"StorageUtils.getDailyProgress", "AudioTracker.getDailyProgress", "markDailyGoalComplete"}

\* C14: with the daily-progress item absent or unparsable (and storage
\* accepting writes), every load path reads an empty store and nothing is
\* raised to the caller: the getters return {} and markDailyGoalComplete
\* resolves with a map that holds today's entry only.
C14_LoadFailsSoft ==
  [][(/\ ret'.op \in LoadOps
      /\ lsDailyProgress.kind \in {"absent", "malformed"}
      /\ ~storageFull) =>
       /\ ~ret'.threw
       /\ DOMAIN ret'.value \subseteq (IF ret'.op = "markDailyGoalComplete"
                                       THEN {ToDateStringNow} ELSE {})]_vars

\* updateDailyProgress(date, progress) has just returned to its caller.
UpdateReturned(r) == r.op = "updateDailyProgress" /\ r.arg # <<>>

\* C15: when the writes of updateDailyProgress fail, the in-memory
\* dailyProgress holds the new outcome, the in-memory userStats are those of
\* the in-memory dailyProgress once the provider has settled, and the caller
\* receives a failure signal.
C15_WriteFailureSurfaced ==
  /\ (storageFull /\ UpdateReturned(ret)) =>
       /\ ret.arg[1] \in DOMAIN ctxDailyProgress
       /\ ctxDailyProgress[ret.arg[1]] = ret.arg[2]
       /\ (ret.failed \/ ret.threw)
  /\ (storageFull /\ Quiescent /\ AutoRefreshRuns(ctxDailyProgress)) =>
       Displayed(ctxUserStats) = Displayed(StatsOf(ctxDailyProgress))

\* The store `after` is `before` with date d mapped to outcome o and nothing
\* else changed.
IsUpsertOf(after, before, d, o) ==
  /\ DOMAIN after = (DOMAIN before) \cup {d}
  /\ after[d] = o
  /\ \A k \in (DOMAIN before) \ {d} : after[k] = before[k]

\* C16: UPDATE_DAILY_PROGRESS for date d with outcome o leaves the context's
\* store mapping d to o with every other entry unchanged, and so does a
\* markDailyGoalComplete that resolves for the persisted store.
C16_UpsertLastWriteWins ==
  [][/\ UpdateReturned(ret') =>
          IsUpsertOf(ctxDailyProgress', ctxDailyProgress, ret'.arg[1], ret'.arg[2])
     /\ (ret'.op = "markDailyGoalComplete" /\ ~ret'.threw) =>
          /\ lsDailyProgress'.kind = "json"
          /\ IsUpsertOf(lsDailyProgress'.data, getDailyProgress(lsDailyProgress),
                        ret'.arg[1], ret'.arg[2])]_vars

\* Today's outcome was overwritten by a later one while yesterday's entry
\* stayed, in the context and in the persisted store.
C16_Witness ==
  /\ UpdateReturned(ret)
  /\ ret.arg[1] = ToDateStringNow
  /\ ret.arg[2] = IncompleteEntry
  /\ DayKey(0 - 1) \in DOMAIN ctxDailyProgress
  /\ ctxDailyProgress[ToDateStringNow] = IncompleteEntry
  /\ lsDailyProgress.kind = "json"
  /\ DayKey(0 - 1) \in DOMAIN lsDailyProgress.data

(***************************************************************************)
(* Properties of the provider (checked under SpecProgress).                *)
(***************************************************************************)
\* C27: an updateDailyProgress call that finds the persisted daily progress
\* equal to the context's dailyProgress leaves them equal, also when it is
\* issued before the provider has re-rendered from an earlier call.
C27_StorageFollowsMemory ==
  [][(UpdateReturned(ret')
        /\ getDailyProgress(lsDailyProgress) = ctxDailyProgress) =>
       getDailyProgress(lsDailyProgress') = ctxDailyProgress']_vars

(***************************************************************************)
(* Properties of demo mode (checked under SpecDemo).                       *)
(***************************************************************************)
\* C29: when demo mode is switched off, the stored daily progress and user
\* stats are what they were when it was switched on.
C29_DemoToggleIsIdentity ==
  [][(lsDemoMode /\ ~lsDemoMode') =>
       /\ lsDailyProgress' = beforeDemo[1]
       /\ lsUserStats' = beforeDemo[2]]_vars

(***************************************************************************)
(* The auto-refresh effect of ProgressProvider, dispatch by dispatch.      *)
(* RenderAndEffects above takes the render that follows a change of        *)
(* state.dailyProgress as one step; here every dispatch schedules a render *)
(* and every render compares the dependencies of the effect.               *)
(***************************************************************************)
\* Most refreshStats calls counted after one change of state.dailyProgress.
MaxRefreshRuns == 3

\* progressReducer with every case building a new dailyProgress object.
ReplacesDailyProgressAlways(type) ==
  type \in {"LOAD_PROGRESS", "UPDATE_DAILY_PROGRESS", "UPDATE_STATS", "SET_LOADING"}

\* progressReducer: the action types whose new state holds a new dailyProgress
\* object.  UPDATE_STATS and SET_LOADING spread the old state and keep it.
ReplacesDailyProgress(type) == type \in {"LOAD_PROGRESS", "UPDATE_DAILY_PROGRESS"}

\* The dispatches of one refreshStats call, in order: SET_LOADING true,
\* UPDATE_STATS, and SET_LOADING false from the finally block.
RefreshDispatches == <<"SET_LOADING", "UPDATE_STATS", "SET_LOADING">>

\* useCallback(fn, [state.dailyProgress]) returns a new function exactly when
\* state.dailyProgress is a new object.
calculateStreakChanged(dailyProgressChanged) == dailyProgressChanged
getWeeklyStatsChanged(dailyProgressChanged) == dailyProgressChanged

\* useCallback(fn, [state.dailyProgress, calculateStreak, getWeeklyStats])
refreshStatsChanged(dailyProgressChanged) ==
  \/ dailyProgressChanged
  \/ calculateStreakChanged(dailyProgressChanged)
  \/ getWeeklyStatsChanged(dailyProgressChanged)

\* The auto-refresh effect has the dependencies [state.dailyProgress, refreshStats]
\* and runs after a render in which one of them changed.
AutoRefreshDepsChanged(dailyProgressChanged) ==
  dailyProgressChanged \/ refreshStatsChanged(dailyProgressChanged)

\* Nothing of the provider is outstanding: no render, effect or resumed await.
RefreshSettled == Quiescent /\ ~renderPending

\* React renders the provider after a dispatch.  The effect runs refreshStats
\* when its dependencies changed and dailyProgress is not empty; refreshStats
\* has no await, so its three dispatches are one batch that schedules the next
\* render and leaves isLoading false.
RefreshRender ==
  /\ dpChanged \/ renderPending
  /\ statsInFlight = <<>>
  /\ clsDailyProgress' = ctxDailyProgress
  /\ IF AutoRefreshDepsChanged(dpChanged) /\ AutoRefreshRuns(ctxDailyProgress)
     THEN /\ LET updatedStats == refreshStats(ctxDailyProgress)
             IN /\ ctxUserStats' = updatedStats
                /\ lsUserStats' = SetItem(lsUserStats, Json(updatedStats))
          /\ ctxIsLoading' = FALSE
          /\ dpChanged' = \E i \in DOMAIN RefreshDispatches :
                             ReplacesDailyProgress(RefreshDispatches[i])
          /\ renderPending' = TRUE
          /\ refreshRuns' = IF refreshRuns < MaxRefreshRuns THEN refreshRuns + 1
                            ELSE MaxRefreshRuns
          /\ ret' = Returned("refreshStats", FALSE)
     ELSE /\ dpChanged' = FALSE
          /\ renderPending' = FALSE
          /\ UNCHANGED <<ctxUserStats, lsUserStats, ctxIsLoading, refreshRuns>>
          /\ ret' = Returned("render", FALSE)
  /\ UNCHANGED <<env, trackerVars, lsDailyProgress, otherStorageVars, ctxDailyProgress,
                 statsInFlight, audioProgress, screenVars, audioEnded, resultEvaluated,
                 clockVars, beforeDemo>>

\* A consumer calls updateDailyProgress: UPDATE_DAILY_PROGRESS is dispatched.
\* The UPDATE_STATS its continuation dispatches is rendered with it, because
\* the continuation resumes before React renders.
RefreshUpdate ==
  \E d \in {0 - 1, 0} : \E e \in {CompletedEntry, IncompleteEntry} :
  /\ Len(statsInFlight) < MaxInFlight
  /\ updateDailyProgress(DayKey(d), e)
  /\ renderPending' = TRUE
  /\ refreshRuns' = 0
  /\ ret' = [Returned("updateDailyProgress", FALSE) EXCEPT !.arg = <<DayKey(d), e>>]
  /\ UNCHANGED <<env, trackerVars, audioProgress, screenVars, audioEnded, resultEvaluated,
                 clockVars, beforeDemo>>

\* The page is loaded again: the load effect dispatches LOAD_PROGRESS.
RefreshLoad ==
  /\ RefreshSettled
  /\ ret.op # "load"
  /\ LoadFrom(lsDailyProgress, lsUserStats)
  /\ renderPending' = TRUE
  /\ refreshRuns' = 0
  /\ UNCHANGED <<env, storageVars, beforeDemo>>

NextRefresh ==
  \/ RefreshUpdate
  \/ StatsContinuation
  \/ RefreshRender
  \/ RefreshLoad

\* React commits every render it scheduled and runs its effects, and the
\* microtask queue is drained: neither step can be postponed forever.  The
\* consumer and the user are under no obligation to act.
SpecRefresh ==
  Init /\ [][NextRefresh]_vars /\ WF_vars(RefreshRender) /\ WF_vars(StatsContinuation)

(***************************************************************************)
(* Properties of the auto-refresh effect (checked under SpecRefresh).      *)
(***************************************************************************)
\* C30: refreshStats runs at most once for a change of state.dailyProgress,
\* and once dailyProgress is no longer changed (no update, no load) the
\* provider settles for good: no render or effect is outstanding and
\* isLoading is false.
C30_RefreshReachesQuiescence ==
  /\ [](refreshRuns <= 1)
  /\ <>[][~(RefreshUpdate \/ RefreshLoad)]_vars => <>[](RefreshSettled /\ ~ctxIsLoading)

\* refreshStats ran for a change, and the render of its dispatches did not
\* run the effect again.
C30_Witness ==
  /\ RefreshSettled
  /\ ~ctxIsLoading
  /\ refreshRuns = 1
  /\ ret.op = "render"
  /\ ctxUserStats = refreshStats(ctxDailyProgress)

====
